---- MODULE Spec2Model ----
(***************************************************************************)
(* Word class optimizer (wordclasses/optimizer.py): the count tables, the  *)
(* frequency initialisation of the classes, the evaluation of a move and   *)
(* the move itself.                                                        *)
(*                                                                         *)
(* Arrays are functions on 0..n-1, matrices are functions on pairs.        *)
(* A floating point value is a record: kind "real" carries the exact value *)
(* as integer coefficients of ln p, p prime (n*ln n = SUM n*v_p(n)*ln p);  *)
(* kind "nan" is IEEE not-a-number; kind "masked" is numpy.ma.masked.      *)
(***************************************************************************)
EXTENDS Integers, Sequences, FiniteSets, TLC

\* Bounds of the model.
\* A corpus of lines l1..ln has size SUM (Len(li) + 1).
MaxCorpusSize == 3
\* num_classes is drawn from 0..MaxNumClasses.
MaxNumClasses == 1
\* The number of _move calls in one behaviour.
MaxMoves == 1

\* The words a corpus line is made of.
Tokens == {"a", "b"}
Reserved == {"<s>", "</s>", "<UNK>"}
\* A listing of every string of the model, to enumerate a set of words.
AllWords == <<"<s>", "</s>", "<UNK>", "a", "b">>

\* Python's None, as the value of an unassigned word_to_class entry.
None == 0 - 1

Range(n) == 0 .. (n - 1)

RECURSIVE SumSet(_, _)
\* The sum of f[x] over x in S.
SumSet(f, S) ==
  IF S = {} THEN 0
  ELSE LET x == CHOOSE y \in S : TRUE IN f[x] + SumSet(f, S \ {x})

Sum(f) == SumSet(f, DOMAIN f)

(***************************************************************************)
(* Inputs of the constructor.                                              *)
(***************************************************************************)
Lines(n) == UNION {[1 .. k -> Tokens] : k \in 0 .. n}

RECURSIVE Corpora(_)
\* The corpus files of size at most s, as sequences of split lines.
Corpora(s) ==
  IF s <= 0 THEN {<<>>}
  ELSE {<<>>} \cup
       UNION {{<<l>> \o c : c \in Corpora(s - Len(l) - 1)} : l \in Lines(s - 1)}

\* vocabulary_file: None, or a file whose stripped lines are the set words.
VocabularyFiles ==
  {[is_none |-> TRUE, words |-> {}], [is_none |-> FALSE, words |-> {"a"}]}

\* The order in which Python iterates over the set S of words. The language
\* leaves it unspecified; the model takes the order of AllWords. The corpora
\* are closed under exchanging the tokens, so that two corpus words of equal
\* count come in either order of their ids.
SetOrder(S) == SelectSeq(AllWords, LAMBDA w : w \in S)

(***************************************************************************)
(* __init__: the vocabulary and the word ids.                              *)
(***************************************************************************)
CorpusWords(corpus_file) ==
  UNION {{corpus_file[i][j] : j \in 1 .. Len(corpus_file[i])} :
         i \in 1 .. Len(corpus_file)}

ReadVocabulary(corpus_file, vocabulary_file) ==
  IF vocabulary_file.is_none
  THEN Reserved \cup CorpusWords(corpus_file)
  ELSE Reserved \cup (CorpusWords(corpus_file) \cap vocabulary_file.words)

\* dict(zip(self.vocabulary, range(self.vocabulary_size))), order being the
\* iteration order of the set.
WordIds(order) ==
  [w \in {order[i] : i \in 1 .. Len(order)} |->
     (CHOOSE i \in 1 .. Len(order) : order[i] = w) - 1]

(***************************************************************************)
(* _read_word_statistics                                                   *)
(***************************************************************************)
\* Sentence without line 63: no </s> at the end.
SentenceUnclosed(line, vocabulary, word_ids) ==
  <<word_ids["<s>"]>> \o
  [i \in 1 .. Len(line) |->
     IF line[i] \in vocabulary THEN word_ids[line[i]] ELSE word_ids["<UNK>"]]

\* Lines 57-63: the word ids of a line, between those of <s> and </s>.
Sentence(line, vocabulary, word_ids) ==
  <<word_ids["<s>"]>> \o
  [i \in 1 .. Len(line) |->
     IF line[i] \in vocabulary THEN word_ids[line[i]] ELSE word_ids["<UNK>"]] \o
  <<word_ids["</s>"]>>

RECURSIVE CountWords(_, _, _)
\* for word_id in sentence: self.word_counts[word_id] += 1
CountWords(word_counts, sentence, i) ==
  IF i > Len(sentence) THEN word_counts
  ELSE CountWords([word_counts EXCEPT ![sentence[i]] = @ + 1], sentence, i + 1)

RECURSIVE CountBigramsCircular(_, _, _)
\* CountBigrams, were the last word of a sentence followed by the first.
CountBigramsCircular(ww_counts, sentence, i) ==
  IF i > Len(sentence) THEN ww_counts
  ELSE CountBigramsCircular(
         [ww_counts EXCEPT ![sentence[i], sentence[(i % Len(sentence)) + 1]] = @ + 1],
         sentence, i + 1)

RECURSIVE CountBigrams(_, _, _)
\* for left, right in zip(sentence[:-1], sentence[1:]): ww_counts[left,right] += 1
CountBigrams(ww_counts, sentence, i) ==
  IF i >= Len(sentence) THEN ww_counts
  ELSE CountBigrams([ww_counts EXCEPT ![sentence[i], sentence[i + 1]] = @ + 1],
                    sentence, i + 1)

RECURSIVE ReadLines(_, _, _, _, _)
ReadLines(stats, corpus_file, n, vocabulary, word_ids) ==
  IF n > Len(corpus_file) THEN stats
  ELSE LET sentence == Sentence(corpus_file[n], vocabulary, word_ids) IN
       ReadLines([word_counts |-> CountWords(stats.word_counts, sentence, 1),
                  ww_counts |-> CountBigrams(stats.ww_counts, sentence, 1)],
                 corpus_file, n + 1, vocabulary, word_ids)

read_word_statistics(corpus_file, vocabulary, word_ids) ==
  LET V == Cardinality(vocabulary) IN
  ReadLines([word_counts |-> [w \in Range(V) |-> 0],
             ww_counts |-> [p \in Range(V) \X Range(V) |-> 0]],
            corpus_file, 1, vocabulary, word_ids)

(***************************************************************************)
(* _freq_init_classes                                                      *)
(***************************************************************************)
\* A Python list of length n accepts the indices -n..n-1.
IndexOk(i, n) == i >= 0 - n /\ i < n
\* The position that index i has in a list or array of length n: a negative
\* index counts from the end.
Idx(i, n) == IF i < 0 THEN i + n ELSE i

RECURSIVE SortedIds(_, _)
\* sorted(enumerate(word_counts), key=count): stable, so by (count, id).
SortedIds(word_counts, S) ==
  IF S = {} THEN <<>>
  ELSE LET m == CHOOSE i \in S : \A j \in S :
                  \/ word_counts[i] < word_counts[j]
                  \/ word_counts[i] = word_counts[j] /\ i <= j
       IN <<m>> \o SortedIds(word_counts, S \ {m})

\* Lines 78-83: one of <s>, </s>, <UNK> gets its class.
AssignReserved(st, word_id, class_id) ==
  IF st.raised # "none" THEN st
  ELSE IF ~IndexOk(class_id, st.num_classes)
  THEN [st EXCEPT !.word_to_class[word_id] = class_id, !.raised = "IndexError"]
  ELSE [st EXCEPT !.word_to_class[word_id] = class_id,
                  !.class_to_words[class_id] = @ \cup {word_id}]

\* Line 93: class_id = min((class_id + 1) % self.num_classes, 3)
NextClassId(class_id, num_classes) ==
  LET n == (class_id + 1) % num_classes IN IF n < 3 THEN n ELSE 3

RECURSIVE AssignByFrequency(_, _, _, _)
\* Lines 85-93: the loop over the words sorted by count.
AssignByFrequency(st, ids, i, class_id) ==
  IF st.raised # "none" \/ i > Len(ids) THEN st
  ELSE IF st.word_to_class[ids[i]] # None
  THEN AssignByFrequency(st, ids, i + 1, class_id)
  ELSE IF ~IndexOk(class_id, st.num_classes)
  THEN [st EXCEPT !.word_to_class[ids[i]] = class_id, !.raised = "IndexError"]
  ELSE AssignByFrequency(
         [st EXCEPT !.word_to_class[ids[i]] = class_id,
                    !.class_to_words[class_id] = @ \cup {ids[i]}],
         ids, i + 1, NextClassId(class_id, st.num_classes))

freq_init_classes(num_classes, word_counts, word_ids) ==
  LET V == Cardinality(DOMAIN word_counts)
      C == num_classes + 3
      st0 == [raised |-> "none",
              num_classes |-> C,
              word_to_class |-> [w \in Range(V) |-> None],
              class_to_words |-> [k \in Range(C) |-> {}]]
      st1 == AssignReserved(st0, word_ids["<s>"], 0)
      st2 == AssignReserved(st1, word_ids["</s>"], 1)
      st3 == AssignReserved(st2, word_ids["<UNK>"], 2)
  IN AssignByFrequency(st3, SortedIds(word_counts, Range(V)), 1, 3)

(***************************************************************************)
(* _compute_class_statistics                                               *)
(***************************************************************************)
RECURSIVE AddClassCounts(_, _, _, _)
\* for word_id, class_id in enumerate(word_to_class): class_counts[class_id] += ...
AddClassCounts(class_counts, word_to_class, word_counts, w) ==
  IF w >= Cardinality(DOMAIN word_to_class) THEN class_counts
  ELSE AddClassCounts(
         [class_counts EXCEPT ![word_to_class[w]] = @ + word_counts[w]],
         word_to_class, word_counts, w + 1)

RECURSIVE AddBigramStatistics(_, _, _, _, _)
\* for (left, right), count in numpy.ndenumerate(ww_counts): row by row.
AddBigramStatistics(t, word_to_class, ww_counts, V, n) ==
  IF n >= V * V THEN t
  ELSE LET left_word_id == n \div V
           right_word_id == n % V
           count == ww_counts[left_word_id, right_word_id]
           left_class_id == word_to_class[left_word_id]
           right_class_id == word_to_class[right_word_id]
       IN AddBigramStatistics(
            [cc_counts |-> [t.cc_counts EXCEPT ![left_class_id, right_class_id] = @ + count],
             cw_counts |-> [t.cw_counts EXCEPT ![left_class_id, right_word_id] = @ + count],
             wc_counts |-> [t.wc_counts EXCEPT ![left_word_id, right_class_id] = @ + count]],
            word_to_class, ww_counts, V, n + 1)

compute_class_statistics(C, word_to_class, word_counts, ww_counts) ==
  LET V == Cardinality(DOMAIN word_to_class)
      t == AddBigramStatistics(
             [cc_counts |-> [p \in Range(C) \X Range(C) |-> 0],
              cw_counts |-> [p \in Range(C) \X Range(V) |-> 0],
              wc_counts |-> [p \in Range(V) \X Range(C) |-> 0]],
             word_to_class, ww_counts, V, 0)
  IN [class_counts |->
        AddClassCounts([k \in Range(C) |-> 0], word_to_class, word_counts, 0),
      cc_counts |-> t.cc_counts,
      cw_counts |-> t.cw_counts,
      wc_counts |-> t.wc_counts]

(***************************************************************************)
(* Floating point values.                                                  *)
(***************************************************************************)
\* No count exceeds the number of tokens of the bracketed corpus.
MaxCount == 2 * MaxCorpusSize

Primes == {p \in 2 .. MaxCount : \A d \in 2 .. (p - 1) : p % d # 0}

RECURSIVE Exponent(_, _)
\* The exponent of the prime p in n >= 1.
Exponent(n, p) == IF n % p # 0 THEN 0 ELSE 1 + Exponent(n \div p, p)

ZeroCoef == [p \in Primes |-> 0]

Real(coef) == [kind |-> "real", coef |-> coef]
NaN == [kind |-> "nan", coef |-> ZeroCoef]
Masked == [kind |-> "masked", coef |-> ZeroCoef]
\* No value: the call raised.
NoValue == [kind |-> "none", coef |-> ZeroCoef]
Zero == Real(ZeroCoef)

\* n * numpy.log(n) for n # 0; the logarithm of a negative number is nan.
XLogX(n) == IF n < 0 THEN NaN ELSE Real([p \in Primes |-> n * Exponent(n, p)])

FAdd(x, y) ==
  IF x.kind = "masked" \/ y.kind = "masked" THEN Masked
  ELSE IF x.kind = "nan" \/ y.kind = "nan" THEN NaN
  ELSE Real([p \in Primes |-> x.coef[p] + y.coef[p]])

FScale(k, x) ==
  IF x.kind # "real" THEN x ELSE Real([p \in Primes |-> k * x.coef[p]])

FSub(x, y) == FAdd(x, FScale(0 - 1, y))

\* count * numpy.log(count): numpy.log(0) is -inf and 0 * -inf is nan.
CountTimesLog(count) == IF count = 0 THEN NaN ELSE XLogX(count)

RECURSIVE SumXLogX(_, _)
SumXLogX(counts, S) ==
  IF S = {} THEN Zero
  ELSE LET x == CHOOSE y \in S : TRUE IN
       FAdd(IF counts[x] <= 0 THEN Zero ELSE XLogX(counts[x]),
            SumXLogX(counts, S \ {x}))

\* (numpy.ma.log(counts) * counts).sum(): the counts <= 0 are masked and
\* left out of the sum; the sum of an array that is masked everywhere is
\* numpy.ma.masked.
MaskedSum(counts) ==
  IF \A x \in DOMAIN counts : counts[x] <= 0 THEN Masked
  ELSE SumXLogX(counts, DOMAIN counts)

(***************************************************************************)
(* log_likelihood                                                          *)
(***************************************************************************)
log_likelihood(self) ==
  FSub(FAdd(MaskedSum(self.cc_counts), MaskedSum(self.word_counts)),
       FScale(2, MaskedSum(self.class_counts)))

(***************************************************************************)
(* _ll_change                                                              *)
(***************************************************************************)
ll_change(old_count, new_count) ==
  FAdd(IF old_count # 0 THEN FScale(0 - 1, XLogX(old_count)) ELSE Zero,
       IF new_count # 0 THEN XLogX(new_count) ELSE Zero)

(***************************************************************************)
(* _evaluate_move                                                          *)
(***************************************************************************)
\* Lines 134-144: the terms of the old and of the new class.
ClassTerms(self, word_id, old_class_id, new_class_id) ==
  LET word_count == self.word_counts[Idx(word_id, self.vocabulary_size)]
      old_count_1 == self.class_counts[Idx(old_class_id, self.num_classes)]
      new_count_1 == old_count_1 - word_count
      old_count_2 == self.class_counts[Idx(new_class_id, self.num_classes)]
      new_count_2 == old_count_2 + word_count
  IN [result |->
        FSub(FAdd(FSub(FScale(2, CountTimesLog(old_count_1)),
                       FScale(2, CountTimesLog(new_count_1))),
                  FScale(2, CountTimesLog(old_count_2))),
             FScale(2, CountTimesLog(new_count_2))),
      log_zero |-> 0 \in {old_count_1, new_count_1, old_count_2, new_count_2}]

\* Lines 146 and 162: the loop takes the elements of a row (a column) of a
\* matrix, which are numbers, and unpacks each into two names: the first
\* element raises TypeError.
UnpackRaises(row_length) == row_length > 0

\* Lines 178-208: the four cells of the old and the new class.
SpecialCells(self, word_id, old_class_id, new_class_id) ==
  LET cc == self.cc_counts
      wc == self.wc_counts
      cw == self.cw_counts
      ww == self.ww_counts[word_id, word_id]
      old_new == cc[old_class_id, new_class_id]
      new_old == cc[new_class_id, old_class_id]
      old_old == cc[old_class_id, old_class_id]
      new_new == cc[new_class_id, new_class_id]
  IN FAdd(FAdd(ll_change(old_new, old_new - wc[word_id, new_class_id]
                                    + cw[old_class_id, word_id] - ww),
               ll_change(new_old, new_old - cw[new_class_id, word_id]
                                    + wc[word_id, old_class_id] - ww)),
          FAdd(ll_change(old_old, old_old - wc[word_id, old_class_id]
                                    - cw[old_class_id, word_id] + ww),
               ll_change(new_new, new_new + wc[word_id, new_class_id]
                                    + cw[new_class_id, word_id] + ww)))

\* The outcome of _evaluate_move(word_id, new_class_id): the exception raised
\* ("none": it returned), the value returned, and whether numpy.log(0) was
\* evaluated on the way.
\* Lines 136 and 142: new_count of the old and of the new class.
PredictedClassCounts(self, word_id, old_class_id, new_class_id) ==
  [old |-> self.class_counts[old_class_id] - self.word_counts[word_id],
   new |-> self.class_counts[new_class_id] + self.word_counts[word_id]]

\* Lines 153-154, 158-159, 169-170 and 174-175: new_count of the cells of the
\* old and the new class with a third class iter_class_id, the counts of the
\* loops being wc_counts[word_id, iter_class_id] and
\* cw_counts[iter_class_id, word_id].
PredictedClassCells(self, word_id, old_class_id, new_class_id, iter_class_id) ==
  LET iter_wc_count == self.wc_counts[word_id, iter_class_id]
      iter_cw_count == self.cw_counts[iter_class_id, word_id]
  IN [old_x |-> self.cc_counts[old_class_id, iter_class_id] - iter_wc_count,
      new_x |-> self.cc_counts[new_class_id, iter_class_id] + iter_wc_count,
      x_old |-> self.cc_counts[iter_class_id, old_class_id] - iter_cw_count,
      x_new |-> self.cc_counts[iter_class_id, new_class_id] + iter_cw_count]

\* Lines 179-183, 187-191, 195-199 and 203-207: new_count of the four cells
\* of the old and the new class.
PredictedSpecialCells(self, word_id, old_class_id, new_class_id) ==
  LET cc == self.cc_counts
      wc == self.wc_counts
      cw == self.cw_counts
      ww == self.ww_counts[word_id, word_id]
  IN [old_new |-> cc[old_class_id, new_class_id] - wc[word_id, new_class_id]
                    + cw[old_class_id, word_id] - ww,
      new_old |-> cc[new_class_id, old_class_id] - cw[new_class_id, word_id]
                    + wc[word_id, old_class_id] - ww,
      old_old |-> cc[old_class_id, old_class_id] - wc[word_id, old_class_id]
                    - cw[old_class_id, word_id] + ww,
      new_new |-> cc[new_class_id, new_class_id] + wc[word_id, new_class_id]
                    + cw[new_class_id, word_id] + ww]

\* Line 132 raises IndexError on a word id that is no index of word_to_class,
\* line 141 on a class id that is no index of class_counts.
evaluate_move(self, word_id, new_class_id) ==
  IF ~IndexOk(word_id, self.vocabulary_size)
  THEN [raised |-> "IndexError", value |-> NoValue, log_zero |-> FALSE]
  ELSE
  LET old_class_id == self.word_to_class[Idx(word_id, self.vocabulary_size)]
      head == ClassTerms(self, word_id, old_class_id, new_class_id)
  IN IF ~IndexOk(new_class_id, self.num_classes)
     THEN LET old_count == self.class_counts[Idx(old_class_id, self.num_classes)]
              word_count == self.word_counts[Idx(word_id, self.vocabulary_size)]
          IN [raised |-> "IndexError", value |-> NoValue,
              log_zero |-> 0 \in {old_count, old_count - word_count}]
     ELSE IF UnpackRaises(self.num_classes)
     THEN [raised |-> "TypeError", value |-> NoValue, log_zero |-> head.log_zero]
     ELSE [raised |-> "none",
           value |-> FAdd(head.result,
                          SpecialCells(self, word_id, old_class_id, new_class_id)),
           log_zero |-> head.log_zero]

(***************************************************************************)
(* _move                                                                   *)
(***************************************************************************)
\* MoveClassCounts, were line 217 to take the count out of word_counts, as
\* lines 218-219 take it from one class to the other.
MoveClassCountsTakingWordCount(self, word_id, old_class_id, new_class_id) ==
  LET word_count == self.word_counts[word_id]
      c1 == [self.class_counts EXCEPT ![old_class_id] = @ - word_count]
  IN [self EXCEPT !.class_counts = [c1 EXCEPT ![new_class_id] = @ + word_count],
                  !.word_counts[word_id] = 0]

\* MoveClassCounts without line 219.
MoveClassCountsNoAdd(self, word_id, old_class_id, new_class_id) ==
  [self EXCEPT !.class_counts[old_class_id] = @ - self.word_counts[word_id]]

\* Lines 216-219.
MoveClassCounts(self, word_id, old_class_id, new_class_id) ==
  LET C == self.num_classes
      word_count == self.word_counts[Idx(word_id, self.vocabulary_size)]
      c1 == [self.class_counts EXCEPT ![Idx(old_class_id, C)] = @ - word_count]
  IN [self EXCEPT !.class_counts =
                    [c1 EXCEPT ![Idx(new_class_id, C)] = @ + word_count]]

RECURSIVE MoveRightWordsAssign(_, _, _, _, _)
\* MoveRightWords with line 228 an assignment: cw_counts[new, right] = count.
MoveRightWordsAssign(self, word_id, old_class_id, new_class_id, right_word_id) ==
  IF right_word_id >= self.vocabulary_size THEN self
  ELSE IF right_word_id = word_id
  THEN MoveRightWordsAssign(self, word_id, old_class_id, new_class_id,
                            right_word_id + 1)
  ELSE LET count == self.ww_counts[word_id, right_word_id]
           right_class_id == self.word_to_class[right_word_id]
           cc1 == [self.cc_counts EXCEPT ![old_class_id, right_class_id] = @ - count]
           cc2 == [cc1 EXCEPT ![new_class_id, right_class_id] = @ + count]
           cw1 == [self.cw_counts EXCEPT ![old_class_id, right_word_id] = @ - count]
           cw2 == [cw1 EXCEPT ![new_class_id, right_word_id] = count]
       IN MoveRightWordsAssign([self EXCEPT !.cc_counts = cc2, !.cw_counts = cw2],
                               word_id, old_class_id, new_class_id,
                               right_word_id + 1)

RECURSIVE MoveRightWordsOfRightClass(_, _, _, _, _)
\* MoveRightWords with line 227 on the row of the class of the right word:
\* cw_counts[right_class_id, right_word_id] -= count.
MoveRightWordsOfRightClass(self, word_id, old_class_id, new_class_id, right) ==
  IF right >= self.vocabulary_size THEN self
  ELSE IF right = word_id
  THEN MoveRightWordsOfRightClass(self, word_id, old_class_id, new_class_id,
                                  right + 1)
  ELSE LET count == self.ww_counts[word_id, right]
           right_class_id == self.word_to_class[right]
           cc1 == [self.cc_counts EXCEPT ![old_class_id, right_class_id] = @ - count]
           cc2 == [cc1 EXCEPT ![new_class_id, right_class_id] = @ + count]
           cw1 == [self.cw_counts EXCEPT ![right_class_id, right] = @ - count]
           cw2 == [cw1 EXCEPT ![new_class_id, right] = @ + count]
       IN MoveRightWordsOfRightClass(
            [self EXCEPT !.cc_counts = cc2, !.cw_counts = cw2],
            word_id, old_class_id, new_class_id, right + 1)

RECURSIVE MoveRightWords(_, _, _, _, _)
\* Lines 221-228: the bigrams (word_id, right_word_id).
MoveRightWords(self, word_id, old_class_id, new_class_id, right_word_id) ==
  IF right_word_id >= self.vocabulary_size THEN self
  ELSE IF right_word_id = word_id
  THEN MoveRightWords(self, word_id, old_class_id, new_class_id, right_word_id + 1)
  ELSE LET C == self.num_classes
           old == Idx(old_class_id, C)
           new == Idx(new_class_id, C)
           count == self.ww_counts[Idx(word_id, self.vocabulary_size), right_word_id]
           right_class_id == Idx(self.word_to_class[right_word_id], C)
           cc1 == [self.cc_counts EXCEPT ![old, right_class_id] = @ - count]
           cc2 == [cc1 EXCEPT ![new, right_class_id] = @ + count]
           cw1 == [self.cw_counts EXCEPT ![old, right_word_id] = @ - count]
           cw2 == [cw1 EXCEPT ![new, right_word_id] = @ + count]
       IN MoveRightWords([self EXCEPT !.cc_counts = cc2, !.cw_counts = cw2],
                         word_id, old_class_id, new_class_id, right_word_id + 1)

RECURSIVE MoveLeftWords(_, _, _, _, _)
\* Lines 230-237: the bigrams (left_word_id, word_id).
MoveLeftWords(self, word_id, old_class_id, new_class_id, left_word_id) ==
  IF left_word_id >= self.vocabulary_size THEN self
  ELSE IF left_word_id = word_id
  THEN MoveLeftWords(self, word_id, old_class_id, new_class_id, left_word_id + 1)
  ELSE LET C == self.num_classes
           old == Idx(old_class_id, C)
           new == Idx(new_class_id, C)
           count == self.ww_counts[left_word_id, Idx(word_id, self.vocabulary_size)]
           left_class_id == Idx(self.word_to_class[left_word_id], C)
           cc1 == [self.cc_counts EXCEPT ![left_class_id, old] = @ - count]
           cc2 == [cc1 EXCEPT ![left_class_id, new] = @ + count]
           wc1 == [self.wc_counts EXCEPT ![left_word_id, old] = @ - count]
           wc2 == [wc1 EXCEPT ![left_word_id, new] = @ + count]
       IN MoveLeftWords([self EXCEPT !.cc_counts = cc2, !.wc_counts = wc2],
                        word_id, old_class_id, new_class_id, left_word_id + 1)

\* MoveSelfBigram without lines 239-245: the loops skip the word itself and
\* its bigram with itself is forgotten.
MoveSelfBigramSkipped(self, word_id, old_class_id, new_class_id) == self

\* Lines 239-245: the bigram (word_id, word_id).
MoveSelfBigram(self, word_id, old_class_id, new_class_id) ==
  LET old == Idx(old_class_id, self.num_classes)
      new == Idx(new_class_id, self.num_classes)
      word == Idx(word_id, self.vocabulary_size)
      count == self.ww_counts[word, word]
      cc1 == [self.cc_counts EXCEPT ![old, old] = @ - count]
      cc2 == [cc1 EXCEPT ![new, new] = @ + count]
      cw1 == [self.cw_counts EXCEPT ![old, word] = @ - count]
      cw2 == [cw1 EXCEPT ![new, word] = @ + count]
      wc1 == [self.wc_counts EXCEPT ![word, old] = @ - count]
      wc2 == [wc1 EXCEPT ![word, new] = @ + count]
  IN [self EXCEPT !.cc_counts = cc2, !.cw_counts = cw2, !.wc_counts = wc2]

\* MoveMembership with lines 247 and 248 exchanged: add, then remove.
MoveMembershipAddFirst(self, word_id, old_class_id, new_class_id) ==
  LET s1 == [self.class_to_words EXCEPT ![new_class_id] = @ \cup {word_id}]
      s2 == [s1 EXCEPT ![old_class_id] = @ \ {word_id}]
  IN [self EXCEPT !.class_to_words = s2,
                  !.word_to_class[word_id] = new_class_id]

\* MoveMembership without line 247.
MoveMembershipNoRemove(self, word_id, old_class_id, new_class_id) ==
  [self EXCEPT !.class_to_words[new_class_id] = @ \cup {word_id},
               !.word_to_class[word_id] = new_class_id]

\* Lines 247-249, the word being in the set of its class: the set gets the
\* word id and the list the class id as they were passed.
MoveMembership(self, word_id, old_class_id, new_class_id) ==
  LET C == self.num_classes
      s1 == [self.class_to_words EXCEPT ![Idx(old_class_id, C)] = @ \ {word_id}]
      s2 == [s1 EXCEPT ![Idx(new_class_id, C)] = @ \cup {word_id}]
  IN [self EXCEPT !.class_to_words = s2,
                  !.word_to_class[Idx(word_id, self.vocabulary_size)] = new_class_id]

\* The fields after _move(word_id, new_class_id) has run to its end.
move(self, word_id, new_class_id) ==
  LET old_class_id == self.word_to_class[Idx(word_id, self.vocabulary_size)]
      s1 == MoveClassCounts(self, word_id, old_class_id, new_class_id)
      s2 == MoveRightWords(s1, word_id, old_class_id, new_class_id, 0)
      s3 == MoveLeftWords(s2, word_id, old_class_id, new_class_id, 0)
      s4 == MoveSelfBigram(s3, word_id, old_class_id, new_class_id)
  IN MoveMembership(s4, word_id, old_class_id, new_class_id)

\* The fields when line 219 raises: line 218 has been executed.
MoveStoppedAtLine219(self, word_id) ==
  LET old_class_id == self.word_to_class[Idx(word_id, self.vocabulary_size)]
      word_count == self.word_counts[Idx(word_id, self.vocabulary_size)]
  IN [self EXCEPT !.class_counts[Idx(old_class_id, self.num_classes)] =
                    @ - word_count]

\* The fields when line 247 raises: lines 216-245 have been executed.
MoveStoppedAtLine247(self, word_id, new_class_id) ==
  LET old_class_id == self.word_to_class[Idx(word_id, self.vocabulary_size)]
      s1 == MoveClassCounts(self, word_id, old_class_id, new_class_id)
      s2 == MoveRightWords(s1, word_id, old_class_id, new_class_id, 0)
      s3 == MoveLeftWords(s2, word_id, old_class_id, new_class_id, 0)
  IN MoveSelfBigram(s3, word_id, old_class_id, new_class_id)

\* The outcome of _move(word_id, new_class_id): the exception raised ("none":
\* it returned) and the fields it leaves. Line 216 raises IndexError on a word
\* id that is no index of word_to_class, line 219 on a class id that is no
\* index of class_counts, and line 247 raises KeyError when the set of the
\* old class has no element word_id, as with a negative word_id.
move_outcome(self, word_id, new_class_id) ==
  IF ~IndexOk(word_id, self.vocabulary_size)
  THEN [raised |-> "IndexError", self |-> self]
  ELSE IF ~IndexOk(new_class_id, self.num_classes)
  THEN [raised |-> "IndexError", self |-> MoveStoppedAtLine219(self, word_id)]
  ELSE IF word_id \notin
            self.class_to_words[Idx(self.word_to_class[Idx(word_id, self.vocabulary_size)],
                                    self.num_classes)]
  THEN [raised |-> "KeyError",
        self |-> MoveStoppedAtLine247(self, word_id, new_class_id)]
  ELSE [raised |-> "none", self |-> move(self, word_id, new_class_id)]

(***************************************************************************)
(* The optimizer object and the calls made on it.                          *)
(***************************************************************************)
VARIABLES
  corpus_file,      \* the lines of the corpus file, split
  vocabulary_file,  \* the vocabulary file, or None
  vocabulary, vocabulary_size, word_ids,
  word_counts, ww_counts,
  num_classes, word_to_class, class_to_words,
  class_counts, cc_counts, cw_counts, wc_counts,
  status,           \* "ok", or the exception __init__ raised
  last,             \* the last call and its outcome
  moves             \* the number of _move calls so far

inputs == <<corpus_file, vocabulary_file>>
word_statistics == <<vocabulary, vocabulary_size, word_ids, word_counts, ww_counts>>
classes == <<num_classes, word_to_class, class_to_words>>
class_statistics == <<class_counts, cc_counts, cw_counts, wc_counts>>
vars == <<inputs, word_statistics, classes, class_statistics, status, last, moves>>

\* The fields of the object.
Self ==
  [vocabulary_size |-> vocabulary_size,
   word_counts |-> word_counts, ww_counts |-> ww_counts,
   num_classes |-> num_classes,
   word_to_class |-> word_to_class, class_to_words |-> class_to_words,
   class_counts |-> class_counts, cc_counts |-> cc_counts,
   cw_counts |-> cw_counts, wc_counts |-> wc_counts]

\* The record of a call: of a move, the word and its old and new class; of an
\* evaluation, whether the class evaluated is the word's class; of both,
\* whether the ids are in [0,V) and [0,C); and the outcome.
Call(op, word_id, old_class_id, new_class_id, same_class, in_range, outcome) ==
  [op |-> op, word_id |-> word_id, old_class_id |-> old_class_id,
   new_class_id |-> new_class_id, same_class |-> same_class,
   in_range |-> in_range,
   raised |-> outcome.raised, value |-> outcome.value,
   log_zero |-> outcome.log_zero]

Returned(value) == [raised |-> "none", value |-> value, log_zero |-> FALSE]

Raised(exception) == [raised |-> exception, value |-> NoValue, log_zero |-> FALSE]

\* The class of the word a call names, None when the word id is no index.
ClassOf(word_id) ==
  IF IndexOk(word_id, vocabulary_size)
  THEN word_to_class[Idx(word_id, vocabulary_size)]
  ELSE None

\* The ids of the call are in [0,V) and in [0,C).
InRange(word_id, new_class_id) ==
  word_id \in Range(vocabulary_size) /\ new_class_id \in Range(num_classes)

\* The call names a word and the class the word is in.
SameClass(word_id, new_class_id) ==
  /\ IndexOk(word_id, vocabulary_size)
  /\ IndexOk(new_class_id, num_classes)
  /\ Idx(ClassOf(word_id), num_classes) = Idx(new_class_id, num_classes)

\* Optimizer(num_classes, corpus_file, vocabulary_file)
Init ==
  \E c \in Corpora(MaxCorpusSize), vf \in VocabularyFiles,
     n \in 0 .. MaxNumClasses :
      LET order == SetOrder(ReadVocabulary(c, vf))
          ids == WordIds(order)
          stats == read_word_statistics(c, ReadVocabulary(c, vf), ids)
          init == freq_init_classes(n, stats.word_counts, ids)
          t == IF init.raised = "none"
               THEN compute_class_statistics(init.num_classes, init.word_to_class,
                                             stats.word_counts, stats.ww_counts)
               ELSE [class_counts |-> <<>>, cc_counts |-> <<>>,
                     cw_counts |-> <<>>, wc_counts |-> <<>>]
      IN /\ corpus_file = c
         /\ vocabulary_file = vf
         /\ vocabulary = ReadVocabulary(c, vf)
         /\ vocabulary_size = Len(order)
         /\ word_ids = ids
         /\ word_counts = stats.word_counts
         /\ ww_counts = stats.ww_counts
         /\ num_classes = init.num_classes
         /\ word_to_class = init.word_to_class
         /\ class_to_words = init.class_to_words
         /\ class_counts = t.class_counts
         /\ cc_counts = t.cc_counts
         /\ cw_counts = t.cw_counts
         /\ wc_counts = t.wc_counts
         /\ status = IF init.raised = "none" THEN "ok" ELSE init.raised
         /\ last = Call("init", None, None, None, FALSE, TRUE, Returned(NoValue))
         /\ moves = 0

\* self._move(word_id, new_class_id)
Move(word_id, new_class_id) ==
  /\ status = "ok"
  /\ moves < MaxMoves
  /\ LET outcome == move_outcome(Self, word_id, new_class_id)
         after == outcome.self
     IN
       /\ vocabulary_size' = after.vocabulary_size
       /\ word_counts' = after.word_counts
       /\ ww_counts' = after.ww_counts
       /\ num_classes' = after.num_classes
       /\ class_counts' = after.class_counts
       /\ cc_counts' = after.cc_counts
       /\ cw_counts' = after.cw_counts
       /\ wc_counts' = after.wc_counts
       /\ class_to_words' = after.class_to_words
       /\ word_to_class' = after.word_to_class
       /\ last' = Call("move", word_id, ClassOf(word_id), new_class_id,
                       SameClass(word_id, new_class_id),
                       InRange(word_id, new_class_id), Raised(outcome.raised))
  /\ moves' = moves + 1
  /\ UNCHANGED <<inputs, vocabulary, word_ids, status>>

\* EvaluateMove, were line 136 to subtract in place:
\* self.class_counts[old_class_id] -= self.word_counts[word_id]
EvaluateMoveInPlace(word_id, new_class_id) ==
  /\ status = "ok"
  /\ last' = Call("evaluate", None, None, None,
                  SameClass(word_id, new_class_id),
                  InRange(word_id, new_class_id),
                  evaluate_move(Self, word_id, new_class_id))
  /\ class_counts' = [class_counts EXCEPT ![word_to_class[word_id]] =
                                            @ - word_counts[word_id]]
  /\ UNCHANGED <<inputs, word_statistics, classes, cc_counts, cw_counts,
                 wc_counts, status, moves>>

\* self._evaluate_move(word_id, new_class_id)
EvaluateMove(word_id, new_class_id) ==
  /\ status = "ok"
  /\ last' = Call("evaluate", None, None, None,
                  SameClass(word_id, new_class_id),
                  InRange(word_id, new_class_id),
                  evaluate_move(Self, word_id, new_class_id))
  /\ UNCHANGED <<inputs, word_statistics, classes, class_statistics, status, moves>>

\* self.log_likelihood()
LogLikelihood ==
  /\ status = "ok"
  /\ last' = Call("log_likelihood", None, None, None, FALSE, TRUE,
                  Returned(log_likelihood(Self)))
  /\ UNCHANGED <<inputs, word_statistics, classes, class_statistics, status, moves>>

Next ==
  \/ \E word_id \in Range(vocabulary_size), new_class_id \in Range(num_classes) :
       Move(word_id, new_class_id)
  \/ \E word_id \in Range(vocabulary_size), new_class_id \in Range(num_classes) :
       EvaluateMove(word_id, new_class_id)
  \/ LogLikelihood

Spec == Init /\ [][Next]_vars

\* The calls with any integers for the ids: the methods check neither.
WordIdArguments == (0 - (vocabulary_size + 1)) .. vocabulary_size
ClassIdArguments == (0 - (num_classes + 1)) .. num_classes

NextAnyIds ==
  \/ \E word_id \in WordIdArguments, new_class_id \in ClassIdArguments :
       Move(word_id, new_class_id)
  \/ \E word_id \in WordIdArguments, new_class_id \in ClassIdArguments :
       EvaluateMove(word_id, new_class_id)

SpecAnyIds == Init /\ [][NextAnyIds]_vars

(***************************************************************************)
(* Properties.                                                             *)
(***************************************************************************)
Words == Range(vocabulary_size)
Classes == Range(num_classes)
WordsOfClass(k) == {w \in Words : word_to_class[w] = k}

\* The number of tokens of the corpus, each line bracketed by <s> and </s>.
TokenCount == SumSet([i \in 1 .. Len(corpus_file) |-> Len(corpus_file[i]) + 2],
                     1 .. Len(corpus_file))

\* The object was built with num_classes >= 1 from a corpus that has words.
ValidConfiguration ==
  status = "ok" /\ num_classes > 3 /\ CorpusWords(corpus_file) # {}

\* The last call was a _move of a word to another class than its own.
Moved == ValidConfiguration /\ last.op = "move" /\ ~last.same_class

\* C1: after construction and after every move the derived tables are the
\* re-aggregation of the word tables under word_to_class: class_counts[k] is
\* the sum of word_counts over the words of class k, cc_counts[a,b] the sum of
\* ww_counts[i,j] over i of class a and j of class b, cw_counts[a,j] the sum
\* over i of class a, wc_counts[i,b] the sum over j of class b.
DerivedTablesAreAggregates ==
  status = "ok" =>
    /\ \A k \in Classes : class_counts[k] = SumSet(word_counts, WordsOfClass(k))
    /\ \A a \in Classes, b \in Classes :
         cc_counts[a, b] = SumSet(ww_counts, WordsOfClass(a) \X WordsOfClass(b))
    /\ \A a \in Classes, j \in Words :
         cw_counts[a, j] = SumSet(ww_counts, WordsOfClass(a) \X {j})
    /\ \A i \in Words, b \in Classes :
         wc_counts[i, b] = SumSet(ww_counts, {i} \X WordsOfClass(b))

\* A word that follows itself and another word in the corpus has been moved
\* into a class that had a word.
MovedWordWithSelfBigram ==
  /\ Moved
  /\ ww_counts[last.word_id, last.word_id] > 0
  /\ \E j \in Words \ {last.word_id} : ww_counts[last.word_id, j] > 0
  /\ class_to_words[last.new_class_id] # {last.word_id}

\* C2: the log likelihood after a move of a word to another class is the log
\* likelihood before it plus the value _evaluate_move returned before it.
DeltaCorrectness ==
  [][(ValidConfiguration /\ last'.op = "move" /\ ~last'.same_class) =>
       LET delta == evaluate_move(Self, last'.word_id, last'.new_class_id) IN
         /\ delta.raised = "none"
         /\ delta.value.kind = "real"
         /\ log_likelihood(Self)' = FAdd(log_likelihood(Self), delta.value)]_vars

\* C3: _evaluate_move of a word and a class other than the word's class
\* returns, without raising, a real number.
EvaluateMoveReturns ==
  (ValidConfiguration /\ last.op = "evaluate" /\ ~last.same_class) =>
    (last.raised = "none" /\ last.value.kind = "real")

\* C4: class_to_words is the inverse of word_to_class, whose values are
\* classes: the sets of the classes are disjoint and cover the vocabulary.
ClassesPartitionWords ==
  status = "ok" =>
    /\ \A w \in Words : word_to_class[w] \in Classes
    /\ \A k \in Classes, w \in Words :
         w \in class_to_words[k] <=> word_to_class[w] = k
    /\ \A k \in Classes, l \in Classes :
         k # l => class_to_words[k] \cap class_to_words[l] = {}
    /\ UNION {class_to_words[k] : k \in Classes} = Words

\* A word has been moved out of a class in which it leaves another word.
MovedBetweenClasses ==
  /\ Moved
  /\ class_to_words[last.old_class_id] # {}
  /\ last.word_id \in class_to_words[last.new_class_id]

\* C5: the class counts and the word counts both add up to the number of
\* tokens of the bracketed corpus.
UnigramMassConserved ==
  status = "ok" =>
    /\ Sum(class_counts) = Sum(word_counts)
    /\ Sum(word_counts) = TokenCount

\* A word that occurs in the corpus has been moved.
MovedWordOfCorpus == Moved /\ word_counts[last.word_id] > 0

\* C6, as claimed: the class bigram counts and the word bigram counts both
\* add up to the number of tokens.
BigramMassIsTokenCount ==
  ValidConfiguration =>
    /\ Sum(cc_counts) = Sum(ww_counts)
    /\ Sum(ww_counts) = TokenCount

\* C6, amended: the class bigram counts and the word bigram counts both add
\* up to the number of tokens less the number of lines; the last token of a
\* line has no successor.
BigramMassConserved ==
  status = "ok" =>
    /\ Sum(cc_counts) = Sum(ww_counts)
    /\ Sum(ww_counts) = TokenCount - Len(corpus_file)

\* A word with a predecessor and a successor in the corpus has been moved.
MovedWordWithBigrams ==
  /\ Moved
  /\ Len(corpus_file) > 0
  /\ \E i \in Words : ww_counts[i, last.word_id] > 0
  /\ \E j \in Words : ww_counts[last.word_id, j] > 0

\* C7: a move of a word from class A to class B followed by its move back to
\* A restores the class tables and the classes; when the word is alone in A,
\* A is empty after the first move and holds the word alone after the second.
MoveIsReversible ==
  [][last'.op = "move" =>
       LET w == last'.word_id
           A == last'.old_class_id
           back == move(Self', w, A)
       IN /\ back.class_counts = class_counts
          /\ back.cc_counts = cc_counts
          /\ back.cw_counts = cw_counts
          /\ back.wc_counts = wc_counts
          /\ back.word_to_class = word_to_class
          /\ back.class_to_words = class_to_words
          /\ (class_to_words[A] = {w} /\ ~last'.same_class) =>
               (class_to_words'[A] = {} /\ back.class_to_words[A] = {w})]_vars

\* A word that occurs in the corpus has been moved out of the class it was
\* alone in.
MovedOutOfSingletonClass ==
  /\ Moved
  /\ class_to_words[last.old_class_id] = {}
  /\ word_counts[last.word_id] > 0

\* C8: _evaluate_move changes none of the tables and neither of the maps
\* between words and classes.
EvaluateMoveReadsOnly ==
  [][last'.op = "evaluate" =>
       UNCHANGED <<word_counts, ww_counts, class_counts, cc_counts, cw_counts,
                   wc_counts, word_to_class, class_to_words>>]_vars

\* A move has been evaluated after a move.
EvaluatedAfterMove == ValidConfiguration /\ last.op = "evaluate" /\ moves > 0

\* C9: neither log_likelihood nor _evaluate_move takes the logarithm of a
\* count of zero or yields not-a-number because of one.
ZeroCountsAreNoError ==
  ValidConfiguration =>
    /\ last.op = "evaluate" => (~last.log_zero /\ last.value.kind # "nan")
    /\ last.op = "log_likelihood" => last.value.kind # "nan"

\* The ids of the words other than <s>, </s>, <UNK>, by ascending count.
NonReservedByCount ==
  SelectSeq(SortedIds(word_counts, Words),
            LAMBDA i : i \notin {word_ids[w] : w \in Reserved})

\* C10: after construction the word of rank r (from 0) among the words other
\* than <s>, </s> and <UNK>, by ascending count, is in class 3 + (r mod (C-3)).
FrequencyInitIsRoundRobin ==
  (ValidConfiguration /\ last.op = "init") =>
    \A r \in 1 .. Len(NonReservedByCount) :
      word_to_class[NonReservedByCount[r]] = 3 + ((r - 1) % (num_classes - 3))

\* The ids of <s>, </s> and <UNK>.
ReservedIds == {word_ids[w] : w \in Reserved}

\* C11: after construction class 0 holds <s> alone, class 1 </s> alone and
\* class 2 <UNK> alone; every other word is in one of the classes 3..C-1.
ReservedClassesAtInit ==
  (ValidConfiguration /\ last.op = "init") =>
    /\ class_to_words[0] = {word_ids["<s>"]}
    /\ class_to_words[1] = {word_ids["</s>"]}
    /\ class_to_words[2] = {word_ids["<UNK>"]}
    /\ \A w \in Words \ ReservedIds : word_to_class[w] \in 3 .. (num_classes - 1)

\* C12: a _move of a word to the class it is in changes none of class_counts,
\* cc_counts, cw_counts, wc_counts, word_to_class and class_to_words.
NoOpMoveChangesNothing ==
  [][(last'.op = "move" /\ last'.same_class) =>
       UNCHANGED <<class_counts, cc_counts, cw_counts, wc_counts,
                   word_to_class, class_to_words>>]_vars

\* A word that occurs in the corpus, between two words, has been moved to the
\* class it was in.
MovedToOwnClass ==
  /\ ValidConfiguration
  /\ last.op = "move" /\ last.same_class
  /\ word_counts[last.word_id] > 0
  /\ \E i \in Words : ww_counts[i, last.word_id] > 0
  /\ \E j \in Words : ww_counts[last.word_id, j] > 0

\* C13: _evaluate_move of a word and the class the word is in returns,
\* without raising, exactly 0.
NoOpEvaluationIsZero ==
  (ValidConfiguration /\ last.op = "evaluate" /\ last.same_class) =>
    (last.raised = "none" /\ last.value = Zero)

\* C14: every _move, whatever its arguments, either returns with all of
\* class_counts, cc_counts, cw_counts, wc_counts, class_to_words and
\* word_to_class as the completed move leaves them, or raises and has changed
\* none of them.
MoveNeverPartial ==
  [][(ValidConfiguration /\ last'.op = "move") =>
       \/ /\ last'.raised = "none"
          /\ Self' = move(Self, last'.word_id, last'.new_class_id)
       \/ /\ last'.raised # "none"
          /\ UNCHANGED <<class_counts, cc_counts, cw_counts, wc_counts,
                         class_to_words, word_to_class>>]_vars

\* C15: a _move or an _evaluate_move with a word id outside [0,V) or a class
\* id outside [0,C), a negative id included, raises IndexError.
OutOfRangeIdsFail ==
  (ValidConfiguration /\ last.op \in {"move", "evaluate"} /\ ~last.in_range) =>
    last.raised = "IndexError"

\* C16: the constructor raises when its argument num_classes is 0 or less,
\* whatever the corpus and the vocabulary (self.num_classes is the argument
\* plus 3).
NonPositiveNumClassesFails ==
  (last.op = "init" /\ num_classes - 3 <= 0) => status # "ok"

\* Line n of the corpus between <s> and </s>, every token that is not in the
\* vocabulary replaced by <UNK>.
Bracketed(n) ==
  <<"<s>">> \o
  [p \in 1 .. Len(corpus_file[n]) |->
     IF corpus_file[n][p] \in vocabulary THEN corpus_file[n][p] ELSE "<UNK>"] \o
  <<"</s>">>

\* The positions (line, index) of the bracketed corpus where word v stands,
\* and those where v stands and is followed by w.
Occurrences(v) ==
  {np \in (1 .. Len(corpus_file)) \X (1 .. MaxCorpusSize + 2) :
     /\ np[2] <= Len(Bracketed(np[1]))
     /\ Bracketed(np[1])[np[2]] = v}
Successions(v, w) ==
  {np \in Occurrences(v) :
     /\ np[2] < Len(Bracketed(np[1]))
     /\ Bracketed(np[1])[np[2] + 1] = w}

\* C17: word_counts[v] is the number of occurrences of v in the lines of the
\* corpus bracketed by <s> and </s>, with <UNK> in the place of every token
\* outside the vocabulary, and ww_counts[v,w] the number of positions where v
\* is immediately followed by w.
WordStatisticsCountCorpus ==
  status = "ok" =>
    \A v \in vocabulary :
      /\ word_counts[word_ids[v]] = Cardinality(Occurrences(v))
      /\ \A w \in vocabulary :
           ww_counts[word_ids[v], word_ids[w]] = Cardinality(Successions(v, w))

\* An optimizer built from a corpus with a word of the vocabulary file and a
\* token it lacks.
BuiltWithUnknownToken ==
  /\ ValidConfiguration
  /\ last.op = "init"
  /\ ~vocabulary_file.is_none
  /\ word_counts[word_ids["<UNK>"]] > 0
  /\ \E v \in vocabulary \ Reserved :
       /\ ww_counts[word_ids["<UNK>"], word_ids[v]] > 0
       /\ ww_counts[word_ids[v], word_ids["</s>"]] > 0

\* The counts that lines 134-208 take for the counts after the move of
\* last'.word_id are the counts the move has left.
PredictedCountsAreMoved ==
  LET w == last'.word_id
      old == last'.old_class_id
      new == last'.new_class_id
      counts == PredictedClassCounts(Self, w, old, new)
      cells == PredictedSpecialCells(Self, w, old, new)
  IN /\ counts.old = class_counts'[old]
     /\ counts.new = class_counts'[new]
     /\ \A X \in Classes \ {old, new} :
          LET x == PredictedClassCells(Self, w, old, new, X) IN
            /\ x.old_x = cc_counts'[old, X]
            /\ x.new_x = cc_counts'[new, X]
            /\ x.x_old = cc_counts'[X, old]
            /\ x.x_new = cc_counts'[X, new]
     /\ cells.old_new = cc_counts'[old, new]
     /\ cells.new_old = cc_counts'[new, old]
     /\ cells.old_old = cc_counts'[old, old]
     /\ cells.new_new = cc_counts'[new, new]

\* C18: for a word w that a _move takes from class old to another class new,
\* _evaluate_move(w, new) before the move computes as new counts the counts
\* after the move: of cc_counts[old,X], cc_counts[new,X], cc_counts[X,old]
\* and cc_counts[X,new] for every third class X, of the four cells of old and
\* new, and of class_counts[old] and class_counts[new].
EvaluateMovePredictsMove ==
  [][(ValidConfiguration /\ last'.op = "move" /\ ~last'.same_class) =>
       /\ evaluate_move(Self, last'.word_id, last'.new_class_id).raised = "none"
       /\ PredictedCountsAreMoved]_vars

\* C19: no _evaluate_move and no _move changes an entry of word_counts or of
\* ww_counts, the vocabulary size or the number of classes.
WordStatisticsImmutable ==
  [][last'.op \in {"move", "evaluate"} =>
       UNCHANGED <<word_counts, ww_counts, vocabulary_size, num_classes>>]_vars

\* After a move, the move of a word to another class has been evaluated, in
\* an optimizer whose vocabulary has a word of the corpus.
EvaluatedAfterMoveWithCorpusWord ==
  /\ ValidConfiguration
  /\ last.op = "evaluate" /\ ~last.same_class
  /\ moves > 0
  /\ \E w \in Words \ ReservedIds : word_counts[w] > 0

\* C20: a _move of word w from class old to class new, the ids in range,
\* changes word_to_class at w only and class_to_words at old and new only; it
\* changes no cell of cc_counts whose row and column are both other classes,
\* no row of cw_counts and no column of wc_counts of another class, and the
\* class_counts of no other class.
MoveIsLocal ==
  [][(last'.op = "move" /\ last'.in_range) =>
       LET w == last'.word_id
           others == Classes \ {last'.old_class_id, last'.new_class_id}
       IN /\ \A v \in Words \ {w} : word_to_class'[v] = word_to_class[v]
          /\ \A k \in others : class_to_words'[k] = class_to_words[k]
          /\ \A a \in others, b \in others : cc_counts'[a, b] = cc_counts[a, b]
          /\ \A k \in others, v \in Words : cw_counts'[k, v] = cw_counts[k, v]
          /\ \A v \in Words, k \in others : wc_counts'[v, k] = wc_counts[v, k]
          /\ \A k \in others : class_counts'[k] = class_counts[k]]_vars

\* A word has been moved to another class that follows a word of a third
\* class and is followed by a word of a third class in the corpus.
MovedBesideThirdClasses ==
  /\ Moved
  /\ \E i \in Words :
       /\ word_to_class[i] \notin {last.old_class_id, last.new_class_id}
       /\ ww_counts[i, last.word_id] > 0
  /\ \E j \in Words :
       /\ word_to_class[j] \notin {last.old_class_id, last.new_class_id}
       /\ ww_counts[last.word_id, j] > 0

====
